---- MODULE Spec2Model ----
(***************************************************************************)
(* Model of the geohash proximity index of earthstream_projects_backend   *)
(* (src/geo_index.rs): the bucket index GEO_INDEX, the reverse lookup      *)
(* GEO_HASH_LOOKUP, and the operations index, find, lookup and            *)
(* get_distance_from_geohash.                                              *)
(*                                                                         *)
(* Representation                                                          *)
(*  - a geohash string is a sequence of one-character strings;             *)
(*  - a coordinate is held in integer grid units: x = (lon + 180) and      *)
(*    y = (lat + 90), each scaled so that the whole range is 0..Units      *)
(*    (Units = 2^16, which holds the centre of every cell of a geohash of  *)
(*    up to 6 characters exactly);                                         *)
(*  - distances and radii are integers in metres (the code's f64           *)
(*    kilometres times 1000);                                              *)
(*  - a SHA-256 fingerprint is the tagged string it was computed from      *)
(*    (an injective key, as the code relies on).                           *)
(***************************************************************************)
EXTENDS Integers, Sequences, FiniteSets, TLC

(***************************************************************************)
(* Bounds and inputs of the model.                                         *)
(***************************************************************************)
\* number of calls of index in one behaviour
MaxIndexCalls == 3

\* entity ids handed to index
Ids == {"p1", "p2"}

\* geohashes handed to index, find and get_distance_from_geohash.  gA, gB and
\* gC lie on the meridian 90.022 E: gA and gB are adjacent 5-character cells
\* either side of a 4-character cell boundary (4.9 km apart), gC is two
\* 4-character rows north of gA (24.4 km).  gW is gA's latitude on the
\* meridian 0.022 E (10007 km away).  gBad holds "a", not a base-32 digit.
gA == <<"w", "0", "0", "0", "b">>
gB == <<"w", "0", "0", "1", "0">>
gC == <<"w", "0", "0", "4", "0">>
gW == <<"s", "0", "0", "0", "b">>
gBad == <<"s", "a", "0">>
ValidGeohashes == {gA, gB, gC, gW}
Geohashes == ValidGeohashes \cup {gBad}

\* two geohashes on the same meridian either side of latitude 45: gN in the
\* northernmost row of cells of precision 1, which have no neighbour to the
\* north, gS in the row below
gN == <<"y", "0", "0", "0", "0">>
gS == <<"w", "p", "b", "p", "b">>
EdgeGeohashes == {gN, gS}

\* radii handed to find at the edge, in metres: 0 (precision 6), 30 km
\* (precision 4), and 39 km and 2000 km (precision 1)
EdgeRadii == {0, 30000, 39000, 2000000}

\* radii handed to find, in metres: one for each precision 6, 5, 4, 3, 2, 1
\* and the boundary value 1.2 km, which selects precision 1
Radii == {0, 1200, 3000, 30000, 100000, 1000000, 2000000}

(***************************************************************************)
(* The geohash codec (crate geohash: decode, encode, neighbor).            *)
(***************************************************************************)
BASE32 == <<"0", "1", "2", "3", "4", "5", "6", "7", "8", "9", "b", "c", "d",
            "e", "f", "g", "h", "j", "k", "m", "n", "p", "q", "r", "s", "t",
            "u", "v", "w", "x", "y", "z">>

RECURSIVE Pow2(_)
Pow2(n) == IF n = 0 THEN 1 ELSE 2 * Pow2(n - 1)

\* the whole longitude (latitude) range in grid units
Units == Pow2(16)

\* the value 0..31 of a base-32 digit (callers check the digit is valid)
hash_value_of_char(c) == (CHOOSE i \in 1..32 : BASE32[i] = c) - 1

\* the 5 bits of a digit value, most significant first
Bits5(v) == [k \in 1..5 |-> (v \div Pow2(5 - k)) % 2]

\* the bit string of a geohash of valid digits
RECURSIVE HashBits(_)
HashBits(h) ==
    IF h = <<>> THEN <<>>
    ELSE Bits5(hash_value_of_char(Head(h))) \o HashBits(Tail(h))

\* decode_bbox narrows [lo, hi] once per bit: bit 1 keeps the upper half.
\* Bits at odd positions (1st, 3rd, ...) are longitude, the others latitude.
RECURSIVE Narrow(_, _, _, _, _)
Narrow(bits, i, want, lo, hi) ==
    IF i > Len(bits) THEN <<lo, hi>>
    ELSE IF (i % 2) # want THEN Narrow(bits, i + 1, want, lo, hi)
    ELSE LET mid == (lo + hi) \div 2
         IN  IF bits[i] = 1 THEN Narrow(bits, i + 1, want, mid, hi)
             ELSE Narrow(bits, i + 1, want, lo, mid)

\* decode: the centre of the cell and its half-widths, or an error when a
\* character is not a base-32 digit
decode_hash(h) ==
    IF \E i \in 1..Len(h) : \A j \in 1..32 : BASE32[j] # h[i]
    THEN [ok |-> FALSE]
    ELSE LET bits == HashBits(h)
             lon == Narrow(bits, 1, 1, 0, Units)
             lat == Narrow(bits, 1, 0, 0, Units)
         IN  [ok |-> TRUE,
              c |-> [x |-> (lon[1] + lon[2]) \div 2, y |-> (lat[1] + lat[2]) \div 2],
              lon_err |-> (lon[2] - lon[1]) \div 2,
              lat_err |-> (lat[2] - lat[1]) \div 2]

\* encode bisects the range once per bit: a value strictly above the middle
\* gives bit 1 and keeps the upper half
RECURSIVE EncodeBits(_, _, _, _, _, _, _)
EncodeBits(c, n, i, lonLo, lonHi, latLo, latHi) ==
    IF i > n THEN <<>>
    ELSE IF i % 2 = 1
    THEN LET mid == (lonLo + lonHi) \div 2
         IN  IF c.x > mid
             THEN <<1>> \o EncodeBits(c, n, i + 1, mid, lonHi, latLo, latHi)
             ELSE <<0>> \o EncodeBits(c, n, i + 1, lonLo, mid, latLo, latHi)
    ELSE LET mid == (latLo + latHi) \div 2
         IN  IF c.y > mid
             THEN <<1>> \o EncodeBits(c, n, i + 1, lonLo, lonHi, mid, latHi)
             ELSE <<0>> \o EncodeBits(c, n, i + 1, lonLo, lonHi, latLo, mid)

\* the digit of 5 bits starting at position k
DigitAt(bits, k) ==
    BASE32[16 * bits[k] + 8 * bits[k + 1] + 4 * bits[k + 2]
           + 2 * bits[k + 3] + bits[k + 4] + 1]

\* encode: the geohash of len characters of the cell holding c, or an error
\* when c is outside the coordinate range or len is not in 1..12
encode_coord(c, len) ==
    IF c.x < 0 \/ c.x > Units \/ c.y < 0 \/ c.y > Units \/ len < 1 \/ len > 12
    THEN [ok |-> FALSE]
    ELSE LET bits == EncodeBits(c, 5 * len, 1, 0, Units, 0, Units)
         IN  [ok |-> TRUE, s |-> [k \in 1..len |-> DigitAt(bits, 5 * (k - 1) + 1)]]

\* Direction::to_tuple: (dlat, dlng)
Directions == <<"N", "NE", "E", "SE", "S", "SW", "W", "NW">>

to_tuple(d) ==
    CASE d = "N" -> <<1, 0>>
      [] d = "NE" -> <<1, 1>>
      [] d = "E" -> <<0, 1>>
      [] d = "SE" -> <<-1, 1>>
      [] d = "S" -> <<-1, 0>>
      [] d = "SW" -> <<-1, -1>>
      [] d = "W" -> <<0, -1>>
      [] d = "NW" -> <<1, -1>>

\* neighbor: the cell of the same length one cell away in direction d; an
\* error when the hash does not decode or the step leaves the coordinate range
neighbor_hash(h, d) ==
    LET dec == decode_hash(h)
    IN  IF ~dec.ok THEN [ok |-> FALSE]
        ELSE encode_coord([x |-> dec.c.x + 2 * dec.lon_err * to_tuple(d)[2],
                           y |-> dec.c.y + 2 * dec.lat_err * to_tuple(d)[1]], Len(h))

\* The codec is stateless, so its results on the strings and coordinates the
\* model's inputs lead to are computed once and kept; decode, encode and
\* neighbor answer from these tables and compute any other argument.
Centres == {decode_hash(g).c : g \in ValidGeohashes \cup EdgeGeohashes}
CentreCells == {encode_coord(c, p).s : c \in Centres, p \in 1..6}
DecodeArgs == Geohashes \cup EdgeGeohashes \cup CentreCells
EncodeArgs == Centres \X (1..6)
NeighborArgs == CentreCells \X {Directions[k] : k \in 1..8}
DECODED == [h \in DecodeArgs |-> decode_hash(h)] @@ <<>>
ENCODED == [a \in EncodeArgs |-> encode_coord(a[1], a[2])] @@ <<>>
NEIGHBORS == [a \in NeighborArgs |-> neighbor_hash(a[1], a[2])] @@ <<>>

decode(h) == IF h \in DecodeArgs THEN DECODED[h] ELSE decode_hash(h)

encode(c, len) ==
    IF <<c, len>> \in EncodeArgs THEN ENCODED[<<c, len>>] ELSE encode_coord(c, len)

neighbor(h, d) ==
    IF <<h, d>> \in NeighborArgs THEN NEIGHBORS[<<h, d>>] ELSE neighbor_hash(h, d)

(***************************************************************************)
(* Distance (geo_index.rs, haversine .. in_radius).                        *)
(***************************************************************************)
\* haversine(lat1, lon1, lat2, lon2) in metres, rounded up to a whole metre.
\* TLC has no real arithmetic, so the function is tabulated: each entry is
\*   EARTH_RADIUS * 2 * atan2(sqrt(a), sqrt(1 - a)),   EARTH_RADIUS = 6371000,
\*   a = sin(dlat/2)^2 + cos(lat1) * cos(lat2) * sin(dlon/2)^2
\* evaluated in double precision for the arguments (in grid units) that the
\* centres of gA, gB, gC and gW give, and the centres of gN and gS give, in
\* either argument order.
HAVERSINE_METRES ==
    <<32772, 32824, 32772, 32824>> :> 0
    @@ <<32772, 32824, 49156, 32824>> :> 10007544
    @@ <<32772, 32824, 49156, 32840>> :> 10007544
    @@ <<32772, 32824, 49156, 32904>> :> 10007544
    @@ <<32824, 32772, 32824, 32772>> :> 0
    @@ <<32824, 32772, 32824, 49156>> :> 10007498
    @@ <<32824, 32772, 32840, 49156>> :> 10007485
    @@ <<32824, 32772, 32904, 49156>> :> 10007432
    @@ <<32824, 49156, 32824, 32772>> :> 10007498
    @@ <<32824, 49156, 32824, 49156>> :> 0
    @@ <<32824, 49156, 32840, 49156>> :> 4887
    @@ <<32824, 49156, 32904, 49156>> :> 24433
    @@ <<32840, 49156, 32824, 32772>> :> 10007485
    @@ <<32840, 49156, 32824, 49156>> :> 4887
    @@ <<32840, 49156, 32840, 49156>> :> 0
    @@ <<32840, 49156, 32904, 49156>> :> 19546
    @@ <<32904, 49156, 32824, 32772>> :> 10007432
    @@ <<32904, 49156, 32824, 49156>> :> 24433
    @@ <<32904, 49156, 32840, 49156>> :> 19546
    @@ <<32904, 49156, 32904, 49156>> :> 0
    @@ <<49156, 32824, 32772, 32824>> :> 10007544
    @@ <<49156, 32824, 49156, 32824>> :> 0
    @@ <<49156, 32824, 49156, 32840>> :> 2
    @@ <<49156, 32824, 49156, 32904>> :> 10
    @@ <<49156, 32840, 32772, 32824>> :> 10007544
    @@ <<49156, 32840, 49156, 32824>> :> 2
    @@ <<49156, 32840, 49156, 32840>> :> 0
    @@ <<49156, 32840, 49156, 32904>> :> 8
    @@ <<49156, 32904, 32772, 32824>> :> 10007544
    @@ <<49156, 32904, 49156, 32824>> :> 10
    @@ <<49156, 32904, 49156, 32840>> :> 8
    @@ <<49156, 32904, 49156, 32904>> :> 0
    @@ <<49144, 49156, 49144, 49156>> :> 0
    @@ <<49144, 49156, 49160, 49156>> :> 4887
    @@ <<49156, 49144, 49156, 49144>> :> 0
    @@ <<49156, 49144, 49156, 49160>> :> 2
    @@ <<49156, 49160, 49156, 49144>> :> 2
    @@ <<49156, 49160, 49156, 49160>> :> 0
    @@ <<49160, 49156, 49144, 49156>> :> 4887
    @@ <<49160, 49156, 49160, 49156>> :> 0

haversine(lat1, lon1, lat2, lon2) == HAVERSINE_METRES[<<lat1, lon1, lat2, lon2>>]

\* get_distance hands haversine the coordinates as (x, y, x, y); panics when
\* geohash2 does not decode
get_distance(coord1, geohash2) ==
    LET dec == decode(geohash2)
    IN  IF ~dec.ok THEN [panic |-> TRUE]
        ELSE [panic |-> FALSE,
              dist |-> haversine(coord1.x, coord1.y, dec.c.x, dec.c.y)]

get_distance_from_geohash(geohash1, geohash2) ==
    LET dec == decode(geohash1)
    IN  IF ~dec.ok THEN [panic |-> TRUE] ELSE get_distance(dec.c, geohash2)

\* get_precision as it would be with the upper end of each range included
get_precision_upper_closed(distance) ==
    IF distance > 156000 /\ distance <= 1252000 THEN 2
    ELSE IF distance > 39000 /\ distance <= 156000 THEN 3
    ELSE IF distance > 4900 /\ distance <= 39000 THEN 4
    ELSE IF distance > 1200 /\ distance <= 4900 THEN 5
    ELSE IF distance < 1200 THEN 6
    ELSE 1

\* get_precision as it would be with the lower end of each range included
get_precision_lower_closed(distance) ==
    IF distance >= 156000 /\ distance < 1252000 THEN 2
    ELSE IF distance >= 39000 /\ distance < 156000 THEN 3
    ELSE IF distance >= 4900 /\ distance < 39000 THEN 4
    ELSE IF distance >= 1200 /\ distance < 4900 THEN 5
    ELSE IF distance < 1200 THEN 6
    ELSE 1

\* get_precision, with the distance in metres
get_precision(distance) ==
    IF distance > 156000 /\ distance < 1252000 THEN 2
    ELSE IF distance > 39000 /\ distance < 156000 THEN 3
    ELSE IF distance > 4900 /\ distance < 39000 THEN 4
    ELSE IF distance > 1200 /\ distance < 4900 THEN 5
    ELSE IF distance < 1200 THEN 6
    ELSE 1

(***************************************************************************)
(* The two maps and the operations on them.                                *)
(***************************************************************************)
VARIABLES
    GEO_INDEX,        \* fingerprint -> sequence of ids (BTreeMap<[u8; 32], Vec<String>>)
    GEO_HASH_LOOKUP,  \* id -> geohash (BTreeMap<String, String>)
    last,             \* the last call: its arguments, outcome and result
    indexCalls,       \* number of calls of index so far
    State,            \* STATE, the canister's State (lib.rs)
    exec              \* the canister's execution: time, calls so far, the
                      \* message in progress and the RefCell borrows it holds

vars == <<GEO_INDEX, GEO_HASH_LOOKUP, last, indexCalls, State, exec>>

\* get_id: the SHA-256 of the string, an injective key
get_id(s_id) == <<"sha256", s_id>>

encode_coords(c, size) ==
    LET e == encode(c, size) IN IF e.ok THEN e.s ELSE <<>>

\* _index_lookup as it would be if an existing entry were kept
_index_lookup_keep(lk, geohash, id) ==
    [i \in DOMAIN lk \cup {id} |-> IF i \in DOMAIN lk THEN lk[i] ELSE geohash]

\* insert or overwrite the entry of id
_index_lookup(lk, geohash, id) ==
    [i \in DOMAIN lk \cup {id} |-> IF i = id THEN geohash ELSE lk[i]]

\* lookup: the stored geohash of id; panics when there is none
lookup(lk, id) ==
    IF id \in DOMAIN lk THEN [panic |-> FALSE, geohash |-> lk[id]]
    ELSE [panic |-> TRUE]

\* index_one as it would be if an id found in the bucket were moved to its end
index_one_move(idx, geohash, id) ==
    LET key == get_id(geohash)
    IN  IF key \in DOMAIN idx
        THEN [idx EXCEPT ![key] = Append(SelectSeq(@, LAMBDA e : e # id), id)]
        ELSE [k \in DOMAIN idx \cup {key} |-> IF k = key THEN <<id>> ELSE idx[k]]

\* index_one as it would be without the search for id in the bucket
index_one_push(idx, geohash, id) ==
    LET key == get_id(geohash)
    IN  IF key \in DOMAIN idx
        THEN [idx EXCEPT ![key] = Append(@, id)]
        ELSE [k \in DOMAIN idx \cup {key} |-> IF k = key THEN <<id>> ELSE idx[k]]

\* one pass of the loop of _index: push id on the bucket of geohash unless it
\* is there, creating the bucket when the key is new
index_one(idx, geohash, id) ==
    LET key == get_id(geohash)
    IN  IF key \in DOMAIN idx
        THEN IF \E i \in 1..Len(idx[key]) : idx[key][i] = id
             THEN idx
             ELSE [idx EXCEPT ![key] = Append(@, id)]
        ELSE [k \in DOMAIN idx \cup {key} |-> IF k = key THEN <<id>> ELSE idx[k]]

\* the loop over geohash_ar
RECURSIVE _index(_, _, _)
_index(idx, geohash_ar, id) ==
    IF geohash_ar = <<>> THEN idx
    ELSE _index(index_one(idx, Head(geohash_ar), id), Tail(geohash_ar), id)

\* get: the ids of the bucket of geohash, empty when there is no bucket
get(idx, geohash) ==
    IF get_id(geohash) \in DOMAIN idx THEN idx[get_id(geohash)] ELSE <<>>

\* to_index as it would be with the sixth precision left out
to_index_short(c) == [p \in 1..5 |-> encode_coords(c, p)]

\* the six strings index re-encodes the coordinate to
to_index(c) == [p \in 1..6 |-> encode_coords(c, p)]

\* index as it would be without the call of _index_lookup
index_without_lookup(idx, lk, geohash, id) ==
    LET dec == decode(geohash)
    IN  IF ~dec.ok THEN [panic |-> TRUE, idx |-> idx, lk |-> lk]
        ELSE [panic |-> FALSE,
              idx |-> _index(idx, to_index(dec.c), id),
              lk |-> lk]

\* index: panics on a geohash that does not decode, before any write
index(idx, lk, geohash, id) ==
    LET dec == decode(geohash)
    IN  IF ~dec.ok THEN [panic |-> TRUE, idx |-> idx, lk |-> lk]
        ELSE [panic |-> FALSE,
              idx |-> _index(idx, to_index(dec.c), id),
              lk |-> _index_lookup(lk, geohash, id)]

\* in_radius as it would be with dist < radius
in_radius_strict(lk, c, radius, id) ==
    LET geohash2 == lookup(lk, id)
    IN  IF geohash2.panic THEN [panic |-> TRUE]
        ELSE LET dist == get_distance(c, geohash2.geohash)
             IN  IF dist.panic THEN [panic |-> TRUE]
                 ELSE [panic |-> FALSE, in |-> dist.dist < radius]

\* in_radius: panics when id has no stored geohash
in_radius(lk, c, radius, id) ==
    LET geohash2 == lookup(lk, id)
    IN  IF geohash2.panic THEN [panic |-> TRUE]
        ELSE LET dist == get_distance(c, geohash2.geohash)
             IN  IF dist.panic THEN [panic |-> TRUE]
                 ELSE [panic |-> FALSE, in |-> dist.dist <= radius]

\* neighbor_cells as it would be if the loop ended at the first direction
\* without a neighbour
RECURSIVE neighbor_cells_until_err(_, _)
neighbor_cells_until_err(_geohash, k) ==
    IF k > Len(Directions) THEN <<>>
    ELSE LET n == neighbor(_geohash, Directions[k])
         IN  IF n.ok THEN <<n.s>> \o neighbor_cells_until_err(_geohash, k + 1)
             ELSE <<>>

\* the cells find reads, in order: the centre, then each neighbour that the
\* codec produces
RECURSIVE neighbor_cells(_, _)
neighbor_cells(_geohash, k) ==
    IF k > Len(Directions) THEN <<>>
    ELSE LET n == neighbor(_geohash, Directions[k])
         IN  (IF n.ok THEN <<n.s>> ELSE <<>>) \o neighbor_cells(_geohash, k + 1)

\* the ids of the cells, in the order find reads them
RECURSIVE candidates(_, _)
candidates(idx, cells) ==
    IF cells = <<>> THEN <<>>
    ELSE get(idx, Head(cells)) \o candidates(idx, Tail(cells))

\* find: every candidate that is in_radius, in the order read; panics when
\* the geohash does not decode or in_radius panics
find(idx, lk, geohash, distance) ==
    LET dec == decode(geohash)
    IN  IF ~dec.ok THEN [panic |-> TRUE, ret |-> <<>>]
        ELSE LET prec == get_precision(distance)
                 _geohash == encode_coords(dec.c, prec)
                 _ids == candidates(idx, <<_geohash>> \o neighbor_cells(_geohash, 1))
                 keep(id) == in_radius(lk, dec.c, distance, id)
             IN  IF \E i \in 1..Len(_ids) : keep(_ids[i]).panic
                 THEN [panic |-> TRUE, ret |-> <<>>]
                 ELSE [panic |-> FALSE,
                       ret |-> SelectSeq(_ids, LAMBDA id : keep(id).in)]

\* the bucket index after get as it would be if get took the bucket of the
\* key with entry(key).or_default(): a key without bucket gains an empty one
get_read_entry(idx, geohash) ==
    [x \in DOMAIN idx \cup {get_id(geohash)} |->
        IF x \in DOMAIN idx THEN idx[x] ELSE <<>>]

\* the bucket index after get: get takes geo_index.borrow() and reads the
\* bucket of the key with BTreeMap::get; it writes nothing
get_read(idx, geohash) == idx

\* the reverse lookup after lookup: lookup takes geo_hash_lookup.borrow() and
\* reads the id with HashMap::get; it writes nothing, and it panics with the
\* map as it was
lookup_read(lk, id) == lk

\* the bucket index after the calls of get that find makes, one per cell
RECURSIVE get_reads(_, _)
get_reads(idx, cells) ==
    IF cells = <<>> THEN idx ELSE get_reads(get_read(idx, Head(cells)), Tail(cells))

\* the reverse lookup after the calls of lookup that find makes through
\* in_radius, one per candidate
RECURSIVE lookup_reads(_, _)
lookup_reads(lk, _ids) ==
    IF _ids = <<>> THEN lk ELSE lookup_reads(lookup_read(lk, Head(_ids)), Tail(_ids))

\* the cells find reads around the cell of its centre
cells_around(_geohash) == <<_geohash>> \o neighbor_cells(_geohash, 1)

\* the cells find reads: none when the geohash does not decode
find_cells(geohash, distance) ==
    IF ~decode(geohash).ok THEN <<>>
    ELSE cells_around(encode_coords(decode(geohash).c, get_precision(distance)))

\* the places of the bucket index: a key and a position of its bucket
slots(idx) == UNION {{<<k, i>> : i \in 1..Len(idx[k])} : k \in DOMAIN idx}

\* view_index: the ids of every bucket.  The Vec lists them bucket after
\* bucket in the order of the SHA-256 keys; ret gives how many times each id
\* is listed.  idx is the bucket index after the call: view_index takes
\* geo_index.borrow() and clones the items
view_index(idx) ==
    [ret |-> [item \in {idx[s[1]][s[2]] : s \in slots(idx)} |->
                 Cardinality({s \in slots(idx) : idx[s[1]][s[2]] = item})],
     idx |-> idx]

(***************************************************************************)
(* The canister (lib.rs): its State, and its endpoints as functions of the *)
(* State and of the two maps of the geo index.  A Project is kept with the *)
(* fields the endpoints below read or write; of its Location the geohash.  *)
(***************************************************************************)
\* Principal::anonymous() and the other callers
ANONYMOUS == "2vxsx-fae"
Principals == {"alice", "bob"}
Callers == Principals \cup {ANONYMOUS}

\* the ProjectData handed to create_project and update_project
Names == {"n1"}
TagLists == {<<>>, <<"Air">>}
ProjectGeohashes == {gA, gB, gBad}
ProjectDatas ==
    [name : Names, geohash : ProjectGeohashes, tags : TagLists]

\* the number of update calls of the canister, and the values
\* ic_cdk::api::time() takes
MaxCalls == 3
Times == {1, 2}

\* the points handed to get_projects_by_location, in grid units, and its
\* radii in metres
LocationPoints == {decode(gA).c, decode(gB).c}
LocationRadii == {0, 30000}

\* State::default()
State_default ==
    [projects |-> <<>>, admins |-> <<>>, owner_projects |-> <<>>,
     date_index |-> <<>>, project_votes |-> <<>>, vote_index |-> <<>>,
     featured_projects |-> <<>>, tag_index |-> <<>>]

\* the execution of the canister between two messages: no message in
\* progress, no RefCell borrowed
Exec_idle(time, calls) ==
    [pc |-> "idle", held |-> <<>>, frame |-> <<>>, time |-> time, calls |-> calls]

\* generate_project_id: the SHA-256 of name, owner and timestamp in hex, an
\* injective key
generate_project_id(name, owner, timestamp) == <<"sha256", name, owner, timestamp>>

\* str::to_lowercase on the tags of the model
to_lowercase(tag) == IF tag = "Air" THEN "air" ELSE tag

\* map.insert(k, v)
insert(map, k, v) == [x \in DOMAIN map \cup {k} |-> IF x = k THEN v ELSE map[x]]

\* map.entry(k).or_insert_with(Vec::new).push(v)
entry_push(map, k, v) ==
    insert(map, k, IF k \in DOMAIN map THEN Append(map[k], v) ELSE <<v>>)

\* the loop of create_project over the tags
RECURSIVE index_tags(_, _, _)
index_tags(tag_index, tags, project_id) ==
    IF tags = <<>> THEN tag_index
    ELSE index_tags(entry_push(tag_index, to_lowercase(Head(tags)), project_id),
                    Tail(tags), project_id)

\* the result of an update call: "ok", "err" (Err returned, nothing written)
\* or "panic" (the call traps and the writes of the message are discarded)
Result(outcome, st, idx, lk, id) ==
    [outcome |-> outcome, state |-> st, idx |-> idx, lk |-> lk, id |-> id]

\* create_project up to the call of geo_index::index: the project, the owner
\* index and the date index are written
store_project(st, caller, project_data, timestamp) ==
    LET project_id == generate_project_id(project_data.name, caller, timestamp)
        project == [id |-> project_id,
                    name |-> project_data.name,
                    geohash |-> project_data.geohash,
                    owner |-> caller,
                    created_at |-> timestamp,
                    vote_count |-> 0,
                    featured |-> FALSE,
                    featured_at |-> <<>>,
                    tags |-> project_data.tags]
    IN  [st EXCEPT !.projects = insert(@, project_id, project),
                   !.owner_projects = entry_push(@, caller, project_id),
                   !.date_index = insert(@, timestamp, project_id)]

\* create_project
create_project(st, idx, lk, caller, project_data, timestamp) ==
    IF caller = ANONYMOUS THEN Result("err", st, idx, lk, <<>>)
    ELSE LET project_id == generate_project_id(project_data.name, caller, timestamp)
             indexed == index(idx, lk, project_data.geohash, project_id)
             state == [store_project(st, caller, project_data, timestamp) EXCEPT
                         !.tag_index = index_tags(@, project_data.tags, project_id)]
         IN  IF indexed.panic THEN Result("panic", st, idx, lk, project_id)
             ELSE Result("ok", state, indexed.idx, indexed.lk, project_id)

\* update_project up to the call of geo_index::index: the fields of the
\* project are written
store_update(st, id, project_data) ==
    [st EXCEPT !.projects[id].name = project_data.name,
               !.projects[id].geohash = project_data.geohash]

\* update_project as it would be without the call of geo_index::index
update_project_unindexed(st, idx, lk, caller, id, project_data) ==
    IF id \notin DOMAIN st.projects THEN Result("err", st, idx, lk, id)
    ELSE IF st.projects[id].owner # caller THEN Result("err", st, idx, lk, id)
    ELSE Result("ok", store_update(st, id, project_data), idx, lk, id)

\* update_project
update_project(st, idx, lk, caller, id, project_data) ==
    IF id \notin DOMAIN st.projects THEN Result("err", st, idx, lk, id)
    ELSE IF st.projects[id].owner # caller THEN Result("err", st, idx, lk, id)
    ELSE LET state == store_update(st, id, project_data)
             indexed == index(idx, lk, project_data.geohash, id)
         IN  IF indexed.panic THEN Result("panic", st, idx, lk, id)
             ELSE Result("ok", state, indexed.idx, indexed.lk, id)

\* vote_for_project
vote_for_project(st, caller, project_id, timestamp) ==
    IF caller = ANONYMOUS THEN [outcome |-> "err", state |-> st]
    ELSE IF project_id \notin DOMAIN st.projects THEN [outcome |-> "err", state |-> st]
    ELSE LET vote == [voter |-> caller, timestamp |-> timestamp]
             votes == IF project_id \in DOMAIN st.project_votes
                      THEN st.project_votes[project_id] ELSE <<>>
         IN  [outcome |-> "ok",
              state |-> [st EXCEPT
                  !.project_votes = insert(@, project_id, insert(votes, caller, vote)),
                  !.vote_index = entry_push(@, caller, project_id),
                  !.projects[project_id].vote_count = @ + 1]]

\* remove_vote
remove_vote(st, caller, project_id) ==
    IF project_id \notin DOMAIN st.project_votes THEN [outcome |-> "err", state |-> st]
    ELSE IF caller \notin DOMAIN st.project_votes[project_id]
         THEN [outcome |-> "err", state |-> st]
    ELSE LET votes == st.project_votes[project_id]
             removed == [v \in DOMAIN votes \ {caller} |-> votes[v]]
             retained == [st EXCEPT !.project_votes[project_id] = removed]
             unindexed ==
                 IF caller \in DOMAIN st.vote_index
                 THEN [retained EXCEPT !.vote_index[caller] =
                           SelectSeq(@, LAMBDA id : id # project_id)]
                 ELSE retained
         IN  [outcome |-> "ok",
              state |-> IF project_id \in DOMAIN st.projects
                        THEN [unindexed EXCEPT !.projects[project_id].vote_count =
                                  IF @ > 0 THEN @ - 1 ELSE 0]
                        ELSE unindexed]

\* map.remove(k)
remove(map, k) == [x \in DOMAIN map \ {k} |-> map[x]]

\* caller_is_super_admin: admins.get(&caller).copied().unwrap_or(false)
caller_is_super_admin(st, caller) ==
    IF caller \in DOMAIN st.admins THEN st.admins[caller] ELSE FALSE

\* caller_is_admin: admins.contains_key(&caller)
caller_is_admin(st, caller) == caller \in DOMAIN st.admins

\* create_super_admin
create_super_admin(st, caller) ==
    IF caller = ANONYMOUS THEN [outcome |-> "err", state |-> st]
    ELSE IF DOMAIN st.admins = {}
         THEN [outcome |-> "ok",
               state |-> [st EXCEPT !.admins = insert(@, caller, TRUE)]]
    ELSE [outcome |-> "err", state |-> st]

\* add_admin
add_admin(st, caller, principal) ==
    IF ~caller_is_super_admin(st, caller) THEN [outcome |-> "err", state |-> st]
    ELSE IF principal = ANONYMOUS THEN [outcome |-> "err", state |-> st]
    ELSE [outcome |-> "ok",
          state |-> [st EXCEPT !.admins = insert(@, principal, FALSE)]]

\* remove_admin
remove_admin(st, caller, principal) ==
    IF ~caller_is_super_admin(st, caller) THEN [outcome |-> "err", state |-> st]
    ELSE IF principal \in DOMAIN st.admins /\ st.admins[principal] = TRUE
         THEN [outcome |-> "err", state |-> st]
    ELSE [outcome |-> "ok", state |-> [st EXCEPT !.admins = remove(@, principal)]]

\* feature_project; featured_at is <<>> for None and <<t>> for Some(t)
feature_project(st, caller, project_id, timestamp) ==
    IF ~caller_is_admin(st, caller) THEN [outcome |-> "err", state |-> st]
    ELSE IF project_id \notin DOMAIN st.projects THEN [outcome |-> "err", state |-> st]
    ELSE IF st.projects[project_id].featured THEN [outcome |-> "err", state |-> st]
    ELSE [outcome |-> "ok",
          state |-> [st EXCEPT
              !.projects[project_id].featured = TRUE,
              !.projects[project_id].featured_at = <<timestamp>>,
              !.featured_projects = insert(@, timestamp, project_id)]]

\* unfeature_project
unfeature_project(st, caller, project_id) ==
    IF ~caller_is_admin(st, caller) THEN [outcome |-> "err", state |-> st]
    ELSE IF project_id \notin DOMAIN st.projects THEN [outcome |-> "err", state |-> st]
    ELSE IF ~st.projects[project_id].featured THEN [outcome |-> "err", state |-> st]
    ELSE LET featured_at == st.projects[project_id].featured_at
         IN  [outcome |-> "ok",
              state |-> [st EXCEPT
                  !.featured_projects =
                      IF featured_at # <<>> THEN remove(@, featured_at[1]) ELSE @,
                  !.projects[project_id].featured = FALSE,
                  !.projects[project_id].featured_at = <<>>]]

\* usize and u32 on the wasm32 target of a canister: 32 bits.  A value is
\* held as its residue of least magnitude modulo 2^32 (two's complement), so
\* that + - * on the residues are the wrapping operations of the machine:
\* u32::MAX is -1
U32_MAX == -1

\* a < b as unsigned numbers
usize_lt(a, b) == IF (a < 0) = (b < 0) THEN a < b ELSE b < 0

\* min(a, b) of std::cmp on usize
min(a, b) == IF usize_lt(b, a) THEN b ELSE a

\* whether a + b, a - b and a * b leave the range of usize
add_overflows(a, b) == usize_lt(a + b, a)
sub_overflows(a, b) == usize_lt(a, b)
mul_overflows(a, b) ==
    IF a >= 0 /\ b >= 0 THEN FALSE ELSE ~(a \in {0, 1} \/ b \in {0, 1})

\* a / b on usize, b # 0, for a below 2^31 or b from 2^31
usize_div(a, b) ==
    IF b < 0 THEN (IF usize_lt(a, b) THEN 0 ELSE 1) ELSE a \div b

\* Option::unwrap_or; <<>> is None and <<v>> is Some(v)
unwrap_or(option, default) == IF option = <<>> THEN default ELSE option[1]

\* what paginate gives back, or the panic that ends it
Page(outcome, items, total_items, total_pages) ==
    [outcome |-> outcome, items |-> items, total |-> total_items,
     pages |-> total_pages]

\* items[start..end].to_vec(): panics when start > end or end > len
slice(items, start, end, total_pages) ==
    IF usize_lt(end, start) \/ usize_lt(Len(items), end)
    THEN Page("panic", <<>>, Len(items), total_pages)
    ELSE Page("ok", SubSeq(items, start + 1, end), Len(items), total_pages)

\* lines 156-163 of paginate: start, end and the slice
paginate_slice(items, page, limit, total_pages, overflow_checks) ==
    IF overflow_checks /\ sub_overflows(page, 1)
    THEN Page("panic", <<>>, Len(items), total_pages)
    ELSE IF overflow_checks /\ mul_overflows(page - 1, limit)
    THEN Page("panic", <<>>, Len(items), total_pages)
    ELSE IF overflow_checks /\ add_overflows((page - 1) * limit, limit)
    THEN Page("panic", <<>>, Len(items), total_pages)
    ELSE slice(items, (page - 1) * limit,
               min((page - 1) * limit + limit, Len(items)), total_pages)

\* paginate.  overflow_checks is the overflow-checks setting of the build:
\* with it an arithmetic overflow panics, without it the result wraps
paginate(items, page, limit, overflow_checks) ==
    IF overflow_checks /\ add_overflows(Len(items), unwrap_or(limit, 20))
    THEN Page("panic", <<>>, Len(items), 0)
    ELSE IF overflow_checks /\ sub_overflows(Len(items) + unwrap_or(limit, 20), 1)
    THEN Page("panic", <<>>, Len(items), 0)
    ELSE IF unwrap_or(limit, 20) = 0
    THEN Page("panic", <<>>, Len(items), 0)
    ELSE paginate_slice(items, unwrap_or(page, 1), unwrap_or(limit, 20),
                        usize_div(Len(items) + unwrap_or(limit, 20) - 1,
                                  unwrap_or(limit, 20)),
                        overflow_checks)

\* the decimal digits of a natural number
DIGITS == <<"0", "1", "2", "3", "4", "5", "6", "7", "8", "9">>
RECURSIVE Digits(_)
Digits(n) ==
    IF n < 10 THEN <<DIGITS[n + 1]>> ELSE Digits(n \div 10) \o <<DIGITS[(n % 10) + 1]>>

\* the degrees of a latitude and of a longitude given in grid units, as a
\* fraction: y * 180 / Units - 90 and x * 360 / Units - 180
lat_degrees(y) == [num |-> y * 45 - 90 * Pow2(14), den |-> Pow2(14)]
lng_degrees(x) == [num |-> x * 45 - 180 * Pow2(13), den |-> Pow2(13)]

\* the decimal digits after the point of r / den, den a power of two
RECURSIVE FractionDigits(_, _)
FractionDigits(r, den) ==
    IF r = 0 THEN <<>>
    ELSE <<DIGITS[((r * 10) \div den) + 1]>> \o FractionDigits((r * 10) % den, den)

\* the Display of an f64: these fractions have at most 14 decimals, which
\* Display prints in full, without a point when there is none
display_f64(v) ==
    LET a == IF v.num < 0 THEN -v.num ELSE v.num
    IN  (IF v.num < 0 THEN <<"-">> ELSE <<>>)
            \o Digits(a \div v.den)
            \o (IF a % v.den = 0 THEN <<>> ELSE <<".">> \o FractionDigits(a % v.den, v.den))

\* format!("{},{}", lat, lng)
format_lat_lng(lat, lng) == display_f64(lat) \o <<",">> \o display_f64(lng)

\* the projects of the ids that have one, in the order of the ids
RECURSIVE filter_map_projects(_, _)
filter_map_projects(st, ids) ==
    IF ids = <<>> THEN <<>>
    ELSE (IF Head(ids) \in DOMAIN st.projects THEN <<st.projects[Head(ids)]>> ELSE <<>>)
             \o filter_map_projects(st, Tail(ids))

\* the end of get_projects_by_location: the projects of the ids find returned
collect_projects(st, center, project_ids) ==
    IF project_ids.panic THEN [panic |-> TRUE, center |-> center, ret |-> <<>>]
    ELSE [panic |-> FALSE, center |-> center,
          ret |-> filter_map_projects(st, project_ids.ret)]

\* get_projects_by_location
get_projects_by_location(st, idx, lk, lat, lng, radius) ==
    collect_projects(st, format_lat_lng(lat, lng),
                     find(idx, lk, format_lat_lng(lat, lng), radius))

(***************************************************************************)
(* The state machine: one action per public operation.                     *)
(***************************************************************************)
\* the record of a call: unused fields hold their empty value; stored is the
\* geohash lookup returns and, for index, the geohash of id before the call
Call(op, geohash, geohash2, id, distance, panic, ids, dist, stored) ==
    [op |-> op, geohash |-> geohash, geohash2 |-> geohash2, id |-> id,
     distance |-> distance, outcome |-> IF panic THEN "panic" ELSE "ok",
     ids |-> ids, dist |-> dist, stored |-> stored]

Init ==
    /\ GEO_INDEX = <<>>
    /\ GEO_HASH_LOOKUP = <<>>
    /\ last = Call("none", <<>>, <<>>, "", 0, FALSE, <<>>, 0, <<>>)
    /\ indexCalls = 0
    /\ State = State_default
    /\ exec = Exec_idle(0, 0)

Index(geohash, id) ==
    /\ indexCalls < MaxIndexCalls
    /\ LET r == index(GEO_INDEX, GEO_HASH_LOOKUP, geohash, id)
       IN  /\ GEO_INDEX' = r.idx
           /\ GEO_HASH_LOOKUP' = r.lk
           /\ last' = Call("index", geohash, <<>>, id, 0, r.panic, <<>>, 0,
                            IF id \in DOMAIN GEO_HASH_LOOKUP
                            THEN GEO_HASH_LOOKUP[id] ELSE <<>>)
    /\ indexCalls' = indexCalls + 1
    /\ UNCHANGED <<State, exec>>

Find(geohash, distance) ==
    /\ LET r == find(GEO_INDEX, GEO_HASH_LOOKUP, geohash, distance)
       IN  last' = Call("find", geohash, <<>>, "", distance, r.panic, r.ret, 0, <<>>)
    /\ GEO_INDEX' = get_reads(GEO_INDEX, find_cells(geohash, distance))
    /\ GEO_HASH_LOOKUP' =
           lookup_reads(GEO_HASH_LOOKUP,
                        candidates(GEO_INDEX, find_cells(geohash, distance)))
    /\ UNCHANGED <<indexCalls, State, exec>>

Lookup(id) ==
    /\ LET r == lookup(GEO_HASH_LOOKUP, id)
       IN  last' = Call("lookup", <<>>, <<>>, id, 0, r.panic, <<>>, 0,
                        IF r.panic THEN <<>> ELSE r.geohash)
    /\ GEO_HASH_LOOKUP' = lookup_read(GEO_HASH_LOOKUP, id)
    /\ UNCHANGED <<GEO_INDEX, indexCalls, State, exec>>

GetDistanceFromGeohash(geohash1, geohash2) ==
    /\ LET r == get_distance_from_geohash(geohash1, geohash2)
       IN  last' = Call("get_distance_from_geohash", geohash1, geohash2, "", 0,
                        r.panic, <<>>, IF r.panic THEN 0 ELSE r.dist, <<>>)
    /\ UNCHANGED <<GEO_INDEX, GEO_HASH_LOOKUP, indexCalls, State, exec>>

Next ==
    \/ \E geohash \in Geohashes, id \in Ids : Index(geohash, id)
    \/ \E geohash \in Geohashes, distance \in Radii : Find(geohash, distance)
    \/ \E id \in Ids : Lookup(id)
    \/ \E geohash1 \in {gA, gBad}, geohash2 \in {gB, gBad} :
          GetDistanceFromGeohash(geohash1, geohash2)

Spec == Init /\ [][Next]_vars

ViewIndex ==
    /\ last' = [op |-> "view_index", outcome |-> "ok",
                ret |-> view_index(GEO_INDEX).ret]
    /\ GEO_INDEX' = view_index(GEO_INDEX).idx
    /\ UNCHANGED <<GEO_HASH_LOOKUP, indexCalls, State, exec>>

\* the radii of find among the other reads, in metres
ReadRadii == {0, 3000, 2000000}

\* the geo index with every public function, view_index included
NextReads ==
    \/ \E geohash \in Geohashes, id \in Ids : Index(geohash, id)
    \/ \E geohash \in Geohashes, distance \in ReadRadii : Find(geohash, distance)
    \/ \E id \in Ids : Lookup(id)
    \/ \E geohash1 \in {gA, gBad}, geohash2 \in {gB, gBad} :
          GetDistanceFromGeohash(geohash1, geohash2)
    \/ ViewIndex

SpecReads == Init /\ [][NextReads]_vars

(***************************************************************************)
(* The index at the edge of the grid: index and find with geohashes whose  *)
(* cell of precision 1 has no northern neighbours.                         *)
(***************************************************************************)
NextEdge ==
    \/ \E geohash \in EdgeGeohashes, id \in Ids : Index(geohash, id)
    \/ \E geohash \in EdgeGeohashes, distance \in EdgeRadii : Find(geohash, distance)

SpecEdge == Init /\ [][NextEdge]_vars

(***************************************************************************)
(* The canister: one action per endpoint.  A message runs from start to    *)
(* end before the next one starts; an update call that panics traps, and   *)
(* leaves the State and the geo index as they were before the message.     *)
(***************************************************************************)
\* the record of a call of an endpoint
CanisterCall(op, caller, id, geohash, outcome) ==
    [op |-> op, caller |-> caller, id |-> id, geohash |-> geohash, outcome |-> outcome]

\* the times a message that starts now can read: ic_cdk::api::time() does
\* not go back
NextTimes == {t \in Times : t >= exec.time}

\* the ids of the stored projects and one id that no project has
MissingId == generate_project_id("none", ANONYMOUS, 0)
KnownIds == DOMAIN State.projects \cup {MissingId}

CreateProject(caller, project_data, timestamp) ==
    /\ exec.pc = "idle"
    /\ exec.calls < MaxCalls
    /\ timestamp \in NextTimes
    /\ LET r == create_project(State, GEO_INDEX, GEO_HASH_LOOKUP, caller,
                               project_data, timestamp)
       IN  /\ State' = r.state
           /\ GEO_INDEX' = r.idx
           /\ GEO_HASH_LOOKUP' = r.lk
           /\ last' = CanisterCall("create_project", caller, r.id,
                                   project_data.geohash, r.outcome)
    /\ exec' = Exec_idle(timestamp, exec.calls + 1)
    /\ UNCHANGED indexCalls

UpdateProject(caller, id, project_data) ==
    /\ exec.pc = "idle"
    /\ exec.calls < MaxCalls
    /\ LET r == update_project(State, GEO_INDEX, GEO_HASH_LOOKUP, caller, id,
                               project_data)
       IN  /\ State' = r.state
           /\ GEO_INDEX' = r.idx
           /\ GEO_HASH_LOOKUP' = r.lk
           /\ last' = CanisterCall("update_project", caller, id,
                                   project_data.geohash, r.outcome)
    /\ exec' = Exec_idle(exec.time, exec.calls + 1)
    /\ UNCHANGED indexCalls

VoteForProject(caller, project_id, timestamp) ==
    /\ exec.pc = "idle"
    /\ exec.calls < MaxCalls
    /\ timestamp \in NextTimes
    /\ LET r == vote_for_project(State, caller, project_id, timestamp)
       IN  /\ State' = r.state
           /\ last' = CanisterCall("vote_for_project", caller, project_id, <<>>,
                                   r.outcome)
    /\ exec' = Exec_idle(timestamp, exec.calls + 1)
    /\ UNCHANGED <<GEO_INDEX, GEO_HASH_LOOKUP, indexCalls>>

RemoveVote(caller, project_id) ==
    /\ exec.pc = "idle"
    /\ exec.calls < MaxCalls
    /\ LET r == remove_vote(State, caller, project_id)
       IN  /\ State' = r.state
           /\ last' = CanisterCall("remove_vote", caller, project_id, <<>>, r.outcome)
    /\ exec' = Exec_idle(exec.time, exec.calls + 1)
    /\ UNCHANGED <<GEO_INDEX, GEO_HASH_LOOKUP, indexCalls>>

\* point is (lat, lng) in grid units
GetProjectsByLocation(point, radius) ==
    /\ exec.pc = "idle"
    /\ LET r == get_projects_by_location(State, GEO_INDEX, GEO_HASH_LOOKUP,
                                         lat_degrees(point.y), lng_degrees(point.x),
                                         radius)
       IN  last' = [op |-> "get_projects_by_location", point |-> point,
                    distance |-> radius, geohash |-> r.center,
                    outcome |-> IF r.panic THEN "panic" ELSE "ok", ret |-> r.ret]
    /\ UNCHANGED <<GEO_INDEX, GEO_HASH_LOOKUP, indexCalls, State, exec>>

\* projects created, moved and searched by location
NextProjects ==
    \/ \E caller \in Callers, geohash \in ProjectGeohashes, timestamp \in Times :
          CreateProject(caller, [name |-> "n1", geohash |-> geohash, tags |-> <<"Air">>],
                        timestamp)
    \/ \E caller \in Callers, id \in KnownIds, geohash \in ProjectGeohashes :
          UpdateProject(caller, id, [name |-> "n1", geohash |-> geohash, tags |-> <<>>])
    \/ \E point \in LocationPoints, radius \in LocationRadii :
          GetProjectsByLocation(point, radius)

SpecProjects == Init /\ [][NextProjects]_vars

\* projects created and voted for
NextVotes ==
    \/ \E caller \in Principals, project_data \in ProjectDatas, timestamp \in Times :
          project_data.geohash = gA /\ CreateProject(caller, project_data, timestamp)
    \/ \E caller \in Callers, project_id \in KnownIds, timestamp \in Times :
          VoteForProject(caller, project_id, timestamp)
    \/ \E caller \in Callers, project_id \in KnownIds :
          RemoveVote(caller, project_id)

SpecVotes == Init /\ [][NextVotes]_vars

(***************************************************************************)
(* The administrators: create_super_admin, add_admin and remove_admin      *)
(* called by and for every principal.                                      *)
(***************************************************************************)
\* the number of update calls about administrators
MaxAdminCalls == 4

\* the record of a call of an administration endpoint
AdminCall(op, caller, principal, outcome) ==
    [op |-> op, caller |-> caller, principal |-> principal, outcome |-> outcome]

CreateSuperAdmin(caller) ==
    /\ exec.pc = "idle"
    /\ exec.calls < MaxAdminCalls
    /\ LET r == create_super_admin(State, caller)
       IN  /\ State' = r.state
           /\ last' = AdminCall("create_super_admin", caller, caller, r.outcome)
    /\ exec' = Exec_idle(exec.time, exec.calls + 1)
    /\ UNCHANGED <<GEO_INDEX, GEO_HASH_LOOKUP, indexCalls>>

AddAdmin(caller, principal) ==
    /\ exec.pc = "idle"
    /\ exec.calls < MaxAdminCalls
    /\ LET r == add_admin(State, caller, principal)
       IN  /\ State' = r.state
           /\ last' = AdminCall("add_admin", caller, principal, r.outcome)
    /\ exec' = Exec_idle(exec.time, exec.calls + 1)
    /\ UNCHANGED <<GEO_INDEX, GEO_HASH_LOOKUP, indexCalls>>

RemoveAdmin(caller, principal) ==
    /\ exec.pc = "idle"
    /\ exec.calls < MaxAdminCalls
    /\ LET r == remove_admin(State, caller, principal)
       IN  /\ State' = r.state
           /\ last' = AdminCall("remove_admin", caller, principal, r.outcome)
    /\ exec' = Exec_idle(exec.time, exec.calls + 1)
    /\ UNCHANGED <<GEO_INDEX, GEO_HASH_LOOKUP, indexCalls>>

NextAdmins ==
    \/ \E caller \in Callers : CreateSuperAdmin(caller)
    \/ \E caller \in Callers, principal \in Callers : AddAdmin(caller, principal)
    \/ \E caller \in Callers, principal \in Callers : RemoveAdmin(caller, principal)

SpecAdmins == Init /\ [][NextAdmins]_vars

(***************************************************************************)
(* The featured projects: projects created, then featured and unfeatured   *)
(* by the administrators.                                                  *)
(***************************************************************************)
\* the number of update calls of a canister that features projects
MaxFeatureCalls == 5

FeatureProject(caller, project_id, timestamp) ==
    /\ exec.pc = "idle"
    /\ exec.calls < MaxFeatureCalls
    /\ timestamp \in NextTimes
    /\ LET r == feature_project(State, caller, project_id, timestamp)
       IN  /\ State' = r.state
           /\ last' = CanisterCall("feature_project", caller, project_id, <<>>,
                                   r.outcome)
    /\ exec' = Exec_idle(timestamp, exec.calls + 1)
    /\ UNCHANGED <<GEO_INDEX, GEO_HASH_LOOKUP, indexCalls>>

UnfeatureProject(caller, project_id) ==
    /\ exec.pc = "idle"
    /\ exec.calls < MaxFeatureCalls
    /\ LET r == unfeature_project(State, caller, project_id)
       IN  /\ State' = r.state
           /\ last' = CanisterCall("unfeature_project", caller, project_id, <<>>,
                                   r.outcome)
    /\ exec' = Exec_idle(exec.time, exec.calls + 1)
    /\ UNCHANGED <<GEO_INDEX, GEO_HASH_LOOKUP, indexCalls>>

NextFeatured ==
    \/ \E caller \in Callers : CreateSuperAdmin(caller)
    \/ \E caller \in Principals, timestamp \in Times :
          CreateProject(caller, [name |-> "n1", geohash |-> gA, tags |-> <<>>],
                        timestamp)
    \/ \E caller \in Callers, project_id \in KnownIds, timestamp \in Times :
          FeatureProject(caller, project_id, timestamp)
    \/ \E caller \in Callers, project_id \in KnownIds :
          UnfeatureProject(caller, project_id)

SpecFeatured == Init /\ [][NextFeatured]_vars

(***************************************************************************)
(* paginate on its own: applied to every list, page and limit of the       *)
(* bounds, in a build with and in a build without overflow checks.         *)
(***************************************************************************)
\* the longest list handed to paginate
MaxItems == 3

\* the lists, the pages and the limits handed to paginate
ItemLists == {SubSeq(<<"i1", "i2", "i3", "i4">>, 1, n) : n \in 0..MaxItems}
Pages == {<<>>, <<0>>, <<1>>, <<2>>, <<3>>, <<U32_MAX>>}
Limits == {<<>>, <<0>>, <<1>>, <<2>>, <<U32_MAX>>}

Paginate(items, page, limit, overflow_checks) ==
    /\ last' = [op |-> "paginate", items |-> items, page |-> page, limit |-> limit,
                overflow_checks |-> overflow_checks,
                ret |-> paginate(items, page, limit, overflow_checks)]
    /\ UNCHANGED <<GEO_INDEX, GEO_HASH_LOOKUP, indexCalls, State, exec>>

NextPaginate ==
    \E items \in ItemLists, page \in Pages, limit \in Limits,
       overflow_checks \in BOOLEAN :
        Paginate(items, page, limit, overflow_checks)

SpecPaginate == Init /\ [][NextPaginate]_vars

(***************************************************************************)
(* The canister step by step: create_project and update_project from the   *)
(* borrow of STATE through index, _index and _index_lookup to their end,   *)
(* one RefCell borrow, one pass of a loop or one write per step.  The code *)
(* has no await, so the message in progress takes every step until it ends *)
(* or traps, and find and lookup run between messages.                     *)
(***************************************************************************)
\* cell_borrowed as it would be if _index borrowed STATE
cell_borrowed_state(pc) ==
    CASE pc = "begin" -> "STATE"
      [] pc = "_index" -> "STATE"
      [] pc = "_index_lookup" -> "GEO_HASH_LOOKUP"

\* the RefCell that is mutably borrowed at each position: STATE by the
\* endpoint, GEO_INDEX by _index, GEO_HASH_LOOKUP by _index_lookup
cell_borrowed(pc) ==
    CASE pc = "begin" -> "STATE"
      [] pc = "_index" -> "GEO_INDEX"
      [] pc = "_index_lookup" -> "GEO_HASH_LOOKUP"

\* RefCell::borrow_mut fails when the cell is borrowed already
already_borrowed(held, cell) == \E i \in 1..Len(held) : held[i] = cell

\* the end of the scope of the last borrow
release(held) == SubSeq(held, 1, Len(held) - 1)

\* the message in progress
Frame(op, caller, id, project_data) ==
    [op |-> op, caller |-> caller, id |-> id, geohash |-> project_data.geohash,
     tags |-> project_data.tags, geohash_ar |-> <<>>,
     saved |-> [State |-> State, GEO_INDEX |-> GEO_INDEX,
                GEO_HASH_LOOKUP |-> GEO_HASH_LOOKUP]]

\* the message in progress panics: the call traps and the canister is as it
\* was before the message
Trap(outcome) ==
    /\ State' = exec.frame.saved.State
    /\ GEO_INDEX' = exec.frame.saved.GEO_INDEX
    /\ GEO_HASH_LOOKUP' = exec.frame.saved.GEO_HASH_LOOKUP
    /\ last' = CanisterCall(exec.frame.op, exec.frame.caller, exec.frame.id,
                            exec.frame.geohash, outcome)
    /\ exec' = Exec_idle(exec.time, exec.calls)

\* create_project, lines 221 to 262
BeginCreate(caller, project_data, timestamp) ==
    /\ exec.pc = "idle"
    /\ exec.calls < MaxCalls
    /\ timestamp \in NextTimes
    /\ IF caller = ANONYMOUS
       THEN /\ last' = CanisterCall("create_project", caller, <<>>,
                                    project_data.geohash, "err")
            /\ exec' = Exec_idle(timestamp, exec.calls + 1)
            /\ UNCHANGED State
       ELSE /\ State' = store_project(State, caller, project_data, timestamp)
            /\ exec' = [pc |-> "index",
                        held |-> <<cell_borrowed("begin")>>,
                        frame |-> Frame("create_project", caller,
                                        generate_project_id(project_data.name, caller,
                                                            timestamp),
                                        project_data),
                        time |-> timestamp,
                        calls |-> exec.calls + 1]
            /\ UNCHANGED last
    /\ UNCHANGED <<GEO_INDEX, GEO_HASH_LOOKUP, indexCalls>>

\* update_project, lines 280 to 301
BeginUpdate(caller, id, project_data) ==
    /\ exec.pc = "idle"
    /\ exec.calls < MaxCalls
    /\ IF id \notin DOMAIN State.projects \/ State.projects[id].owner # caller
       THEN /\ last' = CanisterCall("update_project", caller, id,
                                    project_data.geohash, "err")
            /\ exec' = Exec_idle(exec.time, exec.calls + 1)
            /\ UNCHANGED State
       ELSE /\ State' = store_update(State, id, project_data)
            /\ exec' = [pc |-> "index",
                        held |-> <<cell_borrowed("begin")>>,
                        frame |-> Frame("update_project", caller, id, project_data),
                        time |-> exec.time,
                        calls |-> exec.calls + 1]
            /\ UNCHANGED last
    /\ UNCHANGED <<GEO_INDEX, GEO_HASH_LOOKUP, indexCalls>>

\* index, lines 159 to 167
StepIndexDecode ==
    /\ exec.pc = "index"
    /\ LET dec == decode(exec.frame.geohash)
       IN  IF ~dec.ok THEN Trap("panic")
           ELSE /\ exec' = [exec EXCEPT !.pc = "_index",
                                        !.frame.geohash_ar = to_index(dec.c)]
                /\ UNCHANGED <<GEO_INDEX, GEO_HASH_LOOKUP, last, State>>
    /\ UNCHANGED indexCalls

\* _index, line 61
StepIndexBorrow ==
    /\ exec.pc = "_index"
    /\ IF already_borrowed(exec.held, cell_borrowed("_index"))
       THEN Trap("BorrowMutError")
       ELSE /\ exec' = [exec EXCEPT !.pc = "_index_loop",
                                    !.held = Append(@, cell_borrowed("_index"))]
            /\ UNCHANGED <<GEO_INDEX, GEO_HASH_LOOKUP, last, State>>
    /\ UNCHANGED indexCalls

\* _index, one pass of the loop of lines 62 to 79
StepIndexPush ==
    /\ exec.pc = "_index_loop"
    /\ exec.frame.geohash_ar # <<>>
    /\ GEO_INDEX' = index_one(GEO_INDEX, Head(exec.frame.geohash_ar), exec.frame.id)
    /\ exec' = [exec EXCEPT !.frame.geohash_ar = Tail(@)]
    /\ UNCHANGED <<GEO_HASH_LOOKUP, last, State, indexCalls>>

\* _index, the end of the loop and of the borrow
StepIndexRelease ==
    /\ exec.pc = "_index_loop"
    /\ exec.frame.geohash_ar = <<>>
    /\ exec' = [exec EXCEPT !.pc = "_index_lookup", !.held = release(@)]
    /\ UNCHANGED <<GEO_INDEX, GEO_HASH_LOOKUP, last, State, indexCalls>>

\* _index_lookup, line 37: the borrow and the insert
StepLookupInsert ==
    /\ exec.pc = "_index_lookup"
    /\ IF already_borrowed(exec.held, cell_borrowed("_index_lookup"))
       THEN Trap("BorrowMutError")
       ELSE /\ GEO_HASH_LOOKUP' = _index_lookup(GEO_HASH_LOOKUP, exec.frame.geohash,
                                                exec.frame.id)
            /\ exec' = [exec EXCEPT !.pc = "_index_lookup_end",
                                    !.held = Append(@, cell_borrowed("_index_lookup"))]
            /\ UNCHANGED <<GEO_INDEX, last, State>>
    /\ UNCHANGED indexCalls

\* _index_lookup, the end of the borrow
StepLookupRelease ==
    /\ exec.pc = "_index_lookup_end"
    /\ exec' = [exec EXCEPT !.pc = "end", !.held = release(@)]
    /\ UNCHANGED <<GEO_INDEX, GEO_HASH_LOOKUP, last, State, indexCalls>>

\* create_project, lines 266 to 275, and update_project, line 306: the end
\* of the borrow of STATE
StepEnd ==
    /\ exec.pc = "end"
    /\ State' = IF exec.frame.op = "create_project"
                THEN [State EXCEPT !.tag_index =
                          index_tags(@, exec.frame.tags, exec.frame.id)]
                ELSE State
    /\ last' = CanisterCall(exec.frame.op, exec.frame.caller, exec.frame.id,
                            exec.frame.geohash, "ok")
    /\ exec' = Exec_idle(exec.time, exec.calls)
    /\ UNCHANGED <<GEO_INDEX, GEO_HASH_LOOKUP, indexCalls>>

NextSteps ==
    \/ \E caller \in Callers, geohash \in ProjectGeohashes, timestamp \in Times :
          BeginCreate(caller, [name |-> "n1", geohash |-> geohash, tags |-> <<"Air">>],
                      timestamp)
    \/ \E caller \in Callers, id \in KnownIds, geohash \in ProjectGeohashes :
          BeginUpdate(caller, id, [name |-> "n1", geohash |-> geohash, tags |-> <<>>])
    \/ StepIndexDecode
    \/ StepIndexBorrow
    \/ StepIndexPush
    \/ StepIndexRelease
    \/ StepLookupInsert
    \/ StepLookupRelease
    \/ StepEnd
    \/ \E distance \in LocationRadii : exec.pc = "idle" /\ Find(gA, distance)
    \/ \E id \in KnownIds : exec.pc = "idle" /\ Lookup(id)

SpecSteps == Init /\ [][NextSteps]_vars

(***************************************************************************)
(* The precision selector on its own: get_precision applied to radii       *)
(* around each threshold of its table.                                     *)
(***************************************************************************)
\* the radii reach MaxStep tenths of a kilometre, and MaxStep kilometres, to
\* each side of a threshold
MaxStep == 12

\* the thresholds of the table and 0, in metres
Thresholds == {0, 1200, 4900, 39000, 156000, 1252000}

PrecisionRadii ==
    {t + 100 * k : t \in Thresholds, k \in -MaxStep..MaxStep}
        \cup {t + 1000 * k : t \in Thresholds, k \in -MaxStep..MaxStep}

PrecisionCall(distance, prec) ==
    [op |-> "get_precision", distance |-> distance, outcome |-> "ok", prec |-> prec]

GetPrecision(distance) ==
    /\ last' = PrecisionCall(distance, get_precision(distance))
    /\ UNCHANGED <<GEO_INDEX, GEO_HASH_LOOKUP, indexCalls, State, exec>>

NextPrecision == \E distance \in PrecisionRadii : GetPrecision(distance)

SpecPrecision == Init /\ [][NextPrecision]_vars

(***************************************************************************)
(* Vocabulary of the properties.                                           *)
(***************************************************************************)
Range(seq) == {seq[i] : i \in 1..Len(seq)}

\* the fingerprints of the six buckets a geohash is indexed under
BucketKeys(g) == {get_id(encode(decode(g).c, p).s) : p \in 1..6}

\* the fingerprints of the buckets that hold id e
MemberKeys(e) == {k \in DOMAIN GEO_INDEX : e \in Range(GEO_INDEX[k])}

\* the great-circle distance in metres between two coordinates: haversine
\* with the latitudes (y) and longitudes (x) in the places its signature names
GreatCircle(c1, c2) == haversine(c1.y, c1.x, c2.y, c2.x)

\* the last call was a find that returned
FindReturned == last.op = "find" /\ last.outcome = "ok"

\* the last call was index and it wrote
IndexWrote == last.op = "index" /\ last.outcome = "ok"

(***************************************************************************)
(* Properties.                                                             *)
(***************************************************************************)
\* C1: in every reachable state, every id e with ReverseLookup[e] = g is a
\* member of the bucket keyed by fingerprint(encode(decode(g), p)) for each
\* precision p in 1..6.
C1_StoredIdInItsSixBuckets ==
    \A e \in DOMAIN GEO_HASH_LOOKUP : BucketKeys(GEO_HASH_LOOKUP[e]) \subseteq MemberKeys(e)

\* index has just written an id that was indexed elsewhere before, next to
\* another id
C1_Witness ==
    /\ IndexWrote
    /\ GEO_HASH_LOOKUP[last.id] = last.geohash
    /\ Cardinality(MemberKeys(last.id)) > 6
    /\ Cardinality(DOMAIN GEO_HASH_LOOKUP) = 2

\* C2: find(P, R) returns every indexed id whose stored location is within
\* R of the decoded point P.
C2_FindReturnsAllWithinRadius ==
    FindReturned =>
        \A e \in DOMAIN GEO_HASH_LOOKUP :
            GreatCircle(decode(last.geohash).c, decode(GEO_HASH_LOOKUP[e]).c) <= last.distance
                => e \in Range(last.ids)

\* C3: every id find(center, radius) returns has a stored geohash whose
\* great-circle distance to the decoded center is at most radius.
C3_FindReturnsOnlyWithinRadius ==
    FindReturned =>
        \A e \in Range(last.ids) :
            GreatCircle(decode(last.geohash).c, decode(GEO_HASH_LOOKUP[e]).c) <= last.distance

\* C4: the result of find holds each id at most once.
C4_FindResultHasNoDuplicates ==
    FindReturned =>
        \A i, j \in 1..Len(last.ids) : last.ids[i] = last.ids[j] => i = j

\* C5: an id is a member only of the buckets derived from its current
\* ReverseLookup geohash, never of a bucket of an earlier location alone.
C5_MemberOnlyOfCurrentBuckets ==
    \A e \in DOMAIN GEO_HASH_LOOKUP : MemberKeys(e) \subseteq BucketKeys(GEO_HASH_LOOKUP[e])

\* C6: a call of index with a geohash that does not decode reports a
\* DecodeError to the caller and leaves both maps as they were.
C6_BadIndexReportsDecodeError ==
    [][(last'.op = "index" /\ indexCalls' # indexCalls /\ ~decode(last'.geohash).ok)
          => (last'.outcome = "DecodeError" /\ UNCHANGED <<GEO_INDEX, GEO_HASH_LOOKUP>>)]_vars

\* C7: no operation panics, and find and get_distance_from_geohash given a
\* malformed geohash return a DecodeError.
C7_NoOperationPanics ==
    /\ last.outcome # "panic"
    /\ (/\ last.op \in {"find", "get_distance_from_geohash"}
        /\ (~decode(last.geohash).ok \/ ~decode(last.geohash2).ok))
          => last.outcome = "DecodeError"

\* C8: every id that is a member of a bucket has a ReverseLookup entry, so a
\* find of a geohash that decodes never panics on a missing entry.
C8_BucketMembersHaveLookupEntry ==
    /\ \A k \in DOMAIN GEO_INDEX : Range(GEO_INDEX[k]) \subseteq DOMAIN GEO_HASH_LOOKUP
    /\ (last.op = "find" /\ decode(last.geohash).ok) => last.outcome = "ok"

\* find has read a bucket whose ids were looked up and kept
C8_Witness ==
    FindReturned /\ Len(last.ids) > 0 /\ Cardinality(DOMAIN GEO_HASH_LOOKUP) = 2

\* C9: no bucket holds the same id more than once.
C9_NoDuplicateInBucket ==
    \A k \in DOMAIN GEO_INDEX :
        \A i, j \in 1..Len(GEO_INDEX[k]) : GEO_INDEX[k][i] = GEO_INDEX[k][j] => i = j

\* index has just written an id for the second time, with a geohash that
\* shares coarse cells with the first: the id was found in those buckets
\* (7 to 11 buckets hold it, not 6 and not 12)
C9_Witness ==
    /\ IndexWrote
    /\ Cardinality(MemberKeys(last.id)) \in 7..11
    /\ \E k \in DOMAIN GEO_INDEX : Len(GEO_INDEX[k]) = 1 /\ last.id \in Range(GEO_INDEX[k])

\* C10: find(g, r) returns, and includes every id whose stored geohash is g,
\* for every radius r >= 0 and whatever else is indexed.
C10_FindAtOwnGeohashIncludesId ==
    last.op = "find" =>
        \A e \in DOMAIN GEO_HASH_LOOKUP :
            GEO_HASH_LOOKUP[e] = last.geohash
                => (last.outcome = "ok" /\ e \in Range(last.ids))

\* find with radius 0 at the geohash of an id, with another id in the same
\* fine bucket that has moved away
C10_Witness ==
    /\ FindReturned
    /\ last.distance = 0
    /\ \E e \in DOMAIN GEO_HASH_LOOKUP :
          /\ GEO_HASH_LOOKUP[e] = last.geohash
          /\ e \in Range(last.ids)
          /\ \E o \in DOMAIN GEO_HASH_LOOKUP :
                /\ GEO_HASH_LOOKUP[o] # last.geohash
                /\ BucketKeys(last.geohash) \subseteq MemberKeys(o)

\* C11: for a fixed index state and centre, the ids find returns for a radius
\* are among the ids it returns for every larger radius, boundary radii
\* (which select precision 1) included.
C11_FindMonotoneInRadius ==
    FindReturned =>
        \A r2 \in Radii :
            r2 > last.distance =>
                LET wider == find(GEO_INDEX, GEO_HASH_LOOKUP, last.geohash, r2)
                IN  ~wider.panic /\ Range(last.ids) \subseteq Range(wider.ret)

\* the last call was get_precision
PrecisionReturned == last.op = "get_precision"

\* the radii of the precision table test, in metres, with the precisions the
\* claim lists and with the precision of 39 km as the table gives it
TableRadii == <<0, 1100, 1200, 1300, 5000, 39000, 40000, 156000, 157000, 1251000, 1252000>>
TableListed == <<6, 6, 1, 5, 4, 3, 3, 1, 2, 2, 1>>
TableAmended == <<6, 6, 1, 5, 4, 1, 3, 1, 2, 2, 1>>

\* C12 as stated: the radii 0, 1.1, 1.2, 1.3, 5, 39, 40, 156, 157, 1251, 1252
\* km are mapped to the precisions 6, 6, 1, 5, 4, 3, 3, 1, 2, 2, 1.
C12_TableAsListed ==
    PrecisionReturned =>
        \A i \in DOMAIN TableRadii :
            last.distance = TableRadii[i] => last.prec = TableListed[i]

\* C12 amended: the same radii are mapped to 6, 6, 1, 5, 4, 1, 3, 1, 2, 2, 1:
\* 39 km is a boundary value and is mapped to precision 1 like 1.2 and 156.
C12_TableWithBoundary39 ==
    PrecisionReturned =>
        \A i \in DOMAIN TableRadii :
            last.distance = TableRadii[i] => last.prec = TableAmended[i]

\* get_precision has answered 1 for 39 km
C12_Witness ==
    PrecisionReturned /\ last.distance = 39000 /\ last.prec = 1

\* C13: get_precision returns 2 for 156 < R < 1252, 3 for 39 < R < 156, 4 for
\* 4.9 < R < 39, 5 for 1.2 < R < 4.9, 6 for R < 1.2 (negative R included) and
\* 1 otherwise: for R equal to 1.2, 4.9, 39 or 156 and for every R >= 1252;
\* the result is always in 1..6.
C13_PrecisionTable ==
    PrecisionReturned =>
        LET R == last.distance
            prec == last.prec
        IN  /\ (156000 < R /\ R < 1252000) => prec = 2
            /\ (39000 < R /\ R < 156000) => prec = 3
            /\ (4900 < R /\ R < 39000) => prec = 4
            /\ (1200 < R /\ R < 4900) => prec = 5
            /\ R < 1200 => prec = 6
            /\ (R \in {1200, 4900, 39000, 156000} \/ R >= 1252000) => prec = 1
            /\ prec \in 1..6

\* get_precision has answered 6 for a negative radius
C13_Witness ==
    PrecisionReturned /\ last.distance < 0 /\ last.prec = 6

\* the step is a call of index
IndexStep == last'.op = "index" /\ indexCalls' # indexCalls

\* C14: a call of index(g, id) when the last index of id was index(g, id)
\* leaves every bucket with the same members in the same order and
\* ReverseLookup as it was.
C14_RepeatedIndexChangesNothing ==
    [][(/\ IndexStep
        /\ last'.id \in DOMAIN GEO_HASH_LOOKUP
        /\ GEO_HASH_LOOKUP[last'.id] = last'.geohash)
          => UNCHANGED <<GEO_INDEX, GEO_HASH_LOOKUP>>]_vars

\* index has just been called a second time with the geohash the id already
\* had, and the id is not the first of one of its buckets
C14_Witness ==
    /\ IndexWrote
    /\ last.stored = last.geohash
    /\ \E k \in DOMAIN GEO_INDEX :
          Len(GEO_INDEX[k]) = 2 /\ GEO_INDEX[k][1] = last.id

\* C15: ReverseLookup has one entry per id, and a successful call of index
\* sets the entry of its id to the very string it was given and leaves the
\* other entries; no other step changes ReverseLookup.
C15_LookupHoldsLastIndexedString ==
    [][IF IndexStep /\ last'.outcome = "ok"
       THEN /\ DOMAIN GEO_HASH_LOOKUP' = DOMAIN GEO_HASH_LOOKUP \cup {last'.id}
            /\ GEO_HASH_LOOKUP'[last'.id] = last'.geohash
            /\ \A e \in DOMAIN GEO_HASH_LOOKUP :
                  e # last'.id => GEO_HASH_LOOKUP'[e] = GEO_HASH_LOOKUP[e]
       ELSE UNCHANGED GEO_HASH_LOOKUP]_vars

\* index has just replaced the geohash of an id by another one, which is not
\* the string of its finest bucket
C15_Witness ==
    /\ IndexWrote
    /\ last.stored # <<>>
    /\ last.stored # last.geohash
    /\ GEO_HASH_LOOKUP[last.id] = last.geohash
    /\ GEO_HASH_LOOKUP[last.id] # to_index(decode(last.geohash).c)[6]

\* the cell find reads around the centre of its last call, and the
\* directions in which the codec gives that cell no neighbour
FindCell == encode_coords(decode(last.geohash).c, get_precision(last.distance))
FailedDirections ==
    {k \in DOMAIN Directions : ~neighbor(FindCell, Directions[k]).ok}
ProducedCells ==
    {FindCell} \cup {neighbor(FindCell, Directions[k]).s :
                        k \in DOMAIN Directions \ FailedDirections}

\* C16: when the codec gives no neighbour in some directions, find still
\* returns, and returns every id of the centre cell and of each neighbour
\* that was produced which passes the radius test.
C16_FailedNeighboursAreSkipped ==
    (last.op = "find" /\ decode(last.geohash).ok /\ FailedDirections # {}) =>
        /\ last.outcome = "ok"
        /\ \A cell \in ProducedCells :
              \A e \in Range(get(GEO_INDEX, cell)) :
                  in_radius(GEO_HASH_LOOKUP, decode(last.geohash).c, last.distance, e).in
                      => e \in Range(last.ids)

\* find at a cell without its three northern neighbours has returned an id
\* of the centre cell and an id of the southern neighbour
C16_Witness ==
    /\ FindReturned
    /\ Cardinality(FailedDirections) = 3
    /\ \E e \in Range(last.ids) : e \in Range(get(GEO_INDEX, FindCell))
    /\ \E e \in Range(last.ids) :
          /\ e \notin Range(get(GEO_INDEX, FindCell))
          /\ e \in Range(get(GEO_INDEX, neighbor(FindCell, "S").s))

\* C18: get_projects_by_location(lat, lng, radius) returns: the centre it
\* hands to find is a geohash whose cell holds the point (lat, lng), and the
\* result is the stored projects whose indexed location is within radius of
\* that point.
C18_LocationQueryReturns ==
    last.op = "get_projects_by_location" =>
        /\ last.outcome = "ok"
        /\ LET dec == decode(last.geohash)
           IN  /\ dec.ok
               /\ dec.c.x - dec.lon_err <= last.point.x
               /\ last.point.x <= dec.c.x + dec.lon_err
               /\ dec.c.y - dec.lat_err <= last.point.y
               /\ last.point.y <= dec.c.y + dec.lat_err
        /\ {last.ret[i].id : i \in 1..Len(last.ret)} =
               {id \in DOMAIN State.projects \cap DOMAIN GEO_HASH_LOOKUP :
                   GreatCircle(last.point, decode(GEO_HASH_LOOKUP[id]).c) <= last.distance}

\* C19: every project of the State has a ReverseLookup entry equal to its
\* current location.geohash, after any calls of create_project and
\* update_project, those with a geohash that does not decode included.
C19_ProjectLocationIsIndexed ==
    \A id \in DOMAIN State.projects :
        /\ id \in DOMAIN GEO_HASH_LOOKUP
        /\ GEO_HASH_LOOKUP[id] = State.projects[id].geohash

\* the owner of a stored project has just called update_project with a
\* geohash that does not decode, after the project was moved once
C19_Witness ==
    /\ last.op = "update_project"
    /\ last.outcome = "panic"
    /\ ~decode(last.geohash).ok
    /\ last.id \in DOMAIN State.projects
    /\ State.projects[last.id].geohash = gB
    /\ Cardinality(MemberKeys(last.id)) > 6

\* the voters recorded for a project
Voters(project_id) ==
    IF project_id \in DOMAIN State.project_votes
    THEN DOMAIN State.project_votes[project_id] ELSE {}

\* C20: the vote_count of every project equals the number of voters that
\* project_votes records for it.
C20_VoteCountIsNumberOfVoters ==
    \A project_id \in DOMAIN State.projects :
        State.projects[project_id].vote_count = Cardinality(Voters(project_id))

\* every member of a bucket has a ReverseLookup entry and is in the six
\* buckets of that entry
IndexComplete ==
    \A k \in DOMAIN GEO_INDEX :
        \A e \in Range(GEO_INDEX[k]) :
            /\ e \in DOMAIN GEO_HASH_LOOKUP
            /\ BucketKeys(GEO_HASH_LOOKUP[e]) \subseteq MemberKeys(e)

\* the step is a find or a lookup, or the start of a message that indexes
Observes ==
    \/ last' # last /\ last'.op \in {"find", "lookup"}
    \/ exec.pc = "idle" /\ exec'.pc = "index"

\* C17: index runs to its end with exclusive access: find, lookup and the
\* start of another index happen only between messages and then see every
\* appended id with its ReverseLookup entry, and no step borrows a RefCell
\* that is already borrowed.
C17_IndexRunsToCompletion ==
    /\ [](last.outcome # "BorrowMutError")
    /\ [](\A i, j \in 1..Len(exec.held) : exec.held[i] = exec.held[j] => i = j)
    /\ [](exec.pc = "idle" => IndexComplete)
    /\ [][Observes => (exec.pc = "idle" /\ IndexComplete)]_vars

\* a message holds the borrow of STATE and has appended the id of a new
\* project to the six buckets, next to an earlier project, and has not
\* written its ReverseLookup entry yet
C17_Witness ==
    /\ exec.pc = "_index_lookup"
    /\ exec.held = <<"STATE">>
    /\ exec.frame.id \notin DOMAIN GEO_HASH_LOOKUP
    /\ Cardinality(MemberKeys(exec.frame.id)) = 6
    /\ DOMAIN GEO_HASH_LOOKUP # {}


\* the principals stored as super admin
SuperAdmins(st) == {p \in DOMAIN st.admins : st.admins[p] = TRUE}

\* C21: once create_super_admin has succeeded there is exactly one super
\* admin and it stays the same principal: no call of add_admin, remove_admin
\* or create_super_admin removes, demotes or replaces it.
C21_SuperAdminIsPermanent ==
    [][SuperAdmins(State) # {} =>
         /\ Cardinality(SuperAdmins(State)) = 1
         /\ SuperAdmins(State') = SuperAdmins(State)]_vars


\* the project is stored in the featured index under its featured_at
FeaturedIndexed(st, id) ==
    /\ st.projects[id].featured_at # <<>>
    /\ st.projects[id].featured_at[1] \in DOMAIN st.featured_projects
    /\ st.featured_projects[st.projects[id].featured_at[1]] = id

\* C22: after any sequence of feature_project and unfeature_project calls,
\* two projects featured at the same timestamp included, a project has
\* featured = true if and only if its id is a value of featured_projects,
\* stored under the key equal to its featured_at.
C22_FeaturedIffIndexed ==
    \A id \in DOMAIN State.projects :
        /\ State.projects[id].featured => FeaturedIndexed(State, id)
        /\ \A t \in DOMAIN State.featured_projects :
              State.featured_projects[t] = id =>
                  State.projects[id].featured /\ State.projects[id].featured_at = <<t>>


\* the items of page `page` of a list cut into pages of `limit` items, pages
\* counted from 1: none when page or limit is 0 and when the page is past
\* the end (page and limit are the u32 values as paginate holds them)
PageItems(items, page, limit) ==
    IF page = 0 \/ limit = 0 \/ page < 0 THEN <<>>
    ELSE IF limit < 0 THEN (IF page = 1 THEN items ELSE <<>>)
    ELSE [i \in 1..(IF Len(items) - (page - 1) * limit < 0 THEN 0
                    ELSE IF Len(items) - (page - 1) * limit < limit
                         THEN Len(items) - (page - 1) * limit
                    ELSE limit) |->
             items[(page - 1) * limit + i]]

\* C23: for every item list, page and limit, page 0, limit 0 and a page past
\* the last page included, paginate returns without failing; it yields at
\* most limit items, the items of the requested page, and an empty list when
\* the page is past the end.
C23_PaginateReturnsPage ==
    last.op = "paginate" =>
        /\ last.ret.outcome = "ok"
        /\ ~usize_lt(unwrap_or(last.limit, 20), Len(last.ret.items))
        /\ last.ret.items =
               PageItems(last.items, unwrap_or(last.page, 1), unwrap_or(last.limit, 20))


\* the read operations of the geo index
ReadOps == {"find", "lookup", "get_distance_from_geohash", "view_index"}

\* C24: find, lookup, get_distance_from_geohash and view_index leave the
\* bucket index and the reverse lookup unchanged, whether they succeed or
\* fail; only index changes them.
C24_ReadsLeaveIndexUnchanged ==
    [][/\ last'.op \in ReadOps =>
              GEO_INDEX' = GEO_INDEX /\ GEO_HASH_LOOKUP' = GEO_HASH_LOOKUP
       /\ (GEO_INDEX' # GEO_INDEX \/ GEO_HASH_LOOKUP' # GEO_HASH_LOOKUP) =>
              last'.op = "index"]_vars

\* find has read a cell that has no bucket and has kept an id of another,
\* with both maps written by index
C24_Witness ==
    /\ last.op = "find" /\ last.outcome = "ok" /\ last.ids # <<>>
    /\ \E i \in 1..Len(find_cells(last.geohash, last.distance)) :
          get_id(find_cells(last.geohash, last.distance)[i]) \notin DOMAIN GEO_INDEX
    /\ DOMAIN GEO_HASH_LOOKUP # {}

====
